---------------------------- MODULE Spec2Model ----------------------------
(***************************************************************************)
(* Tagged Base64 codec (crate tagged-base64).                              *)
(*                                                                         *)
(* A Rust `str`/`String` is modelled as a sequence of Unicode code points  *)
(* (its chars); a `Vec<u8>`/`&[u8]` as a sequence of bytes 0..255.  Where  *)
(* the code hands a string to a byte-oriented routine (the CRC digest, the *)
(* base64 decoder, `into_bytes`) the model passes its UTF-8 encoding.      *)
(***************************************************************************)
EXTENDS Integers, Sequences, FiniteSets, TLC

\* inTag and inValue hold the tag and the payload last handed to new or to a
\* setter of tb (for a parsed value, the ones it was parsed with).
\* tb2 is a second value held beside tb: none, or the one value in the set.
VARIABLES pc, tb, op, calls, inTag, inValue, inStr, res, out, typed, cli, tb2

vars ==
    <<pc, tb, op, calls, inTag, inValue, inStr, res, out, typed, cli, tb2>>

---------------------------------------------------------------------------
(* Bounds of the model.                                                    *)

MaxTagLen == 2
MaxValueLen == 2
MaxStrLen == 4
MaxCalls == 2

---------------------------------------------------------------------------
(* Machine integers.                                                       *)

\* `as u8`: reduction modulo 2^8.
U8Modulus == 256

Bytes == 0 .. (U8Modulus - 1)

BitAt(x, i) == (x \div (2 ^ i)) % 2

\* Exclusive or of two 4-bit numbers, bit by bit.
XorNibble(a, b) ==
    ((BitAt(a, 0) + BitAt(b, 0)) % 2)
  + ((BitAt(a, 1) + BitAt(b, 1)) % 2) * 2
  + ((BitAt(a, 2) + BitAt(b, 2)) % 2) * 4
  + ((BitAt(a, 3) + BitAt(b, 3)) % 2) * 8

XorTable == [a \in 0 .. 15 |-> [b \in 0 .. 15 |-> XorNibble(a, b)]]

\* The ^ operator on u8.
Xor8(a, b) ==
    XorTable[a \div 16][b \div 16] * 16 + XorTable[a % 16][b % 16]

\* Front(s): s without its last element (bytes[..penultimate]).
Front(s) == SubSeq(s, 1, Len(s) - 1)

Last(s) == s[Len(s)]

---------------------------------------------------------------------------
(* UTF-8: str::as_bytes / String::into_bytes and str::from_utf8.           *)

Utf8OfChar(c) ==
    IF c < 128 THEN <<c>>
    ELSE IF c < 2048 THEN <<192 + (c \div 64), 128 + (c % 64)>>
    ELSE IF c < 65536
         THEN <<224 + (c \div 4096), 128 + ((c \div 64) % 64), 128 + (c % 64)>>
    ELSE <<240 + (c \div 262144), 128 + ((c \div 4096) % 64),
           128 + ((c \div 64) % 64), 128 + (c % 64)>>

\* The encodings of s[lo..hi], concatenated (the range is halved so that long
\* strings do not nest deeply).
RECURSIVE Utf8Range(_, _, _)
Utf8Range(s, lo, hi) ==
    IF lo > hi THEN <<>>
    ELSE IF lo = hi THEN Utf8OfChar(s[lo])
    ELSE LET mid == (lo + hi) \div 2
         IN  Utf8Range(s, lo, mid) \o Utf8Range(s, mid + 1, hi)

Utf8Bytes(s) == Utf8Range(s, 1, Len(s))

IsCont(b) == b >= 128 /\ b < 192

\* Length of the well-formed UTF-8 sequence starting at bytes[i], 0 if none.
Utf8SeqLen(bytes, i) ==
    LET b == bytes[i]
        n == Len(bytes)
    IN  IF b < 128 THEN 1
        ELSE IF b >= 194 /\ b < 224
             THEN IF i + 1 <= n /\ IsCont(bytes[i + 1]) THEN 2 ELSE 0
        ELSE IF b >= 224 /\ b < 240
             THEN IF /\ i + 2 <= n
                     /\ IsCont(bytes[i + 1])
                     /\ IsCont(bytes[i + 2])
                     /\ (b = 224 => bytes[i + 1] >= 160)
                     /\ (b = 237 => bytes[i + 1] < 160)
                  THEN 3 ELSE 0
        ELSE IF b >= 240 /\ b < 245
             THEN IF /\ i + 3 <= n
                     /\ IsCont(bytes[i + 1])
                     /\ IsCont(bytes[i + 2])
                     /\ IsCont(bytes[i + 3])
                     /\ (b = 240 => bytes[i + 1] >= 144)
                     /\ (b = 244 => bytes[i + 1] < 144)
                  THEN 4 ELSE 0
        ELSE 0

Utf8CharAt(bytes, i, k) ==
    IF k = 1 THEN bytes[i]
    ELSE IF k = 2 THEN (bytes[i] - 192) * 64 + (bytes[i + 1] - 128)
    ELSE IF k = 3
         THEN (bytes[i] - 224) * 4096 + (bytes[i + 1] - 128) * 64
              + (bytes[i + 2] - 128)
    ELSE (bytes[i] - 240) * 262144 + (bytes[i + 1] - 128) * 4096
         + (bytes[i + 2] - 128) * 64 + (bytes[i + 3] - 128)

\* str::from_utf8: [ok |-> TRUE, s |-> chars] or [ok |-> FALSE, s |-> <<>>].
RECURSIVE FromUtf8At(_, _, _)
FromUtf8At(bytes, i, acc) ==
    IF i > Len(bytes) THEN [ok |-> TRUE, s |-> acc]
    ELSE LET k == Utf8SeqLen(bytes, i)
         IN  IF k = 0 THEN [ok |-> FALSE, s |-> <<>>]
             ELSE FromUtf8At(bytes, i + k, Append(acc, Utf8CharAt(bytes, i, k)))

from_utf8(bytes) == FromUtf8At(bytes, 1, <<>>)

---------------------------------------------------------------------------
(* CRC-8 as built by CRC::crc8(): polynomial x^8 + x^2 + x + 1, initial    *)
(* value 0, no reflection, no final xor.                                   *)

Crc8Poly == 7

\* Variant: the register of a CRC-8 with polynomial x^8 + x^5 + x^4 + 1.
Crc8Shift_x31(c) ==
    IF c >= 128 THEN Xor8((c * 2) % U8Modulus, 49)
    ELSE (c * 2) % U8Modulus

\* One shift of the 8-bit register, most significant bit first.
Crc8Shift(c) ==
    IF c >= 128 THEN Xor8((c * 2) % U8Modulus, Crc8Poly)
    ELSE (c * 2) % U8Modulus

Crc8Step(c) ==
    Crc8Shift(Crc8Shift(Crc8Shift(Crc8Shift(
    Crc8Shift(Crc8Shift(Crc8Shift(Crc8Shift(c))))))))

Crc8Table == [x \in Bytes |-> Crc8Step(x)]

\* The register after the bytes data[lo..hi] have been fed in, in order (the
\* range is halved so that long inputs do not nest deeply).
RECURSIVE DigestRange(_, _, _, _)
DigestRange(crc, data, lo, hi) ==
    IF lo > hi THEN crc
    ELSE IF lo = hi THEN Crc8Table[Xor8(crc, data[lo])]
    ELSE LET mid == (lo + hi) \div 2
             left == DigestRange(crc, data, lo, mid)
         IN  \* the test makes TLC compute left before it descends
             IF left \in Bytes THEN DigestRange(left, data, mid + 1, hi) ELSE crc

\* CRC::digest: feed the bytes of data into the register crc.
digest(crc, data) == DigestRange(crc, data, 1, Len(data))

---------------------------------------------------------------------------
(* The base64 engine BASE64 = GeneralPurpose::new(&URL_SAFE, NO_PAD):      *)
(* URL-safe alphabet, no padding written, padding refused when reading.    *)

PAD_BYTE == 61

INVALID_VALUE == 255

\* Variant: the STANDARD alphabet ('+' and '/' for 62 and 63) in place of
\* URL_SAFE.
SymbolOf_standard(v) ==
    IF v < 26 THEN 65 + v
    ELSE IF v < 52 THEN 97 + (v - 26)
    ELSE IF v < 62 THEN 48 + (v - 52)
    ELSE IF v = 62 THEN 43
    ELSE 47

\* URL_SAFE alphabet: the symbol (an ASCII byte) of a 6-bit value.
SymbolOf(v) ==
    IF v < 26 THEN 65 + v
    ELSE IF v < 52 THEN 97 + (v - 26)
    ELSE IF v < 62 THEN 48 + (v - 52)
    ELSE IF v = 62 THEN 45
    ELSE 95

\* The decode table of URL_SAFE: the 6-bit value of a byte, or INVALID_VALUE.
ValueOf(b) ==
    IF b >= 65 /\ b <= 90 THEN b - 65
    ELSE IF b >= 97 /\ b <= 122 THEN b - 97 + 26
    ELSE IF b >= 48 /\ b <= 57 THEN b - 48 + 52
    ELSE IF b = 45 THEN 62
    ELSE IF b = 95 THEN 63
    ELSE INVALID_VALUE

\* The symbols of the group of up to three bytes that starts at input[i].
EncodeGroup(input, i) ==
    LET n == Len(input) IN
    IF i + 2 <= n
    THEN << SymbolOf(input[i] \div 4),
            SymbolOf((input[i] % 4) * 16 + (input[i + 1] \div 16)),
            SymbolOf((input[i + 1] % 16) * 4 + (input[i + 2] \div 64)),
            SymbolOf(input[i + 2] % 64) >>
    ELSE IF i + 1 = n
         THEN << SymbolOf(input[i] \div 4),
                 SymbolOf((input[i] % 4) * 16 + (input[i + 1] \div 16)),
                 SymbolOf((input[i + 1] % 16) * 4) >>
    ELSE << SymbolOf(input[i] \div 4), SymbolOf((input[i] % 4) * 16) >>

\* The symbols of groups lo..hi (group g starts at byte 3g - 2), in order.
RECURSIVE EncodeGroups(_, _, _)
EncodeGroups(input, lo, hi) ==
    IF lo > hi THEN <<>>
    ELSE IF lo = hi THEN EncodeGroup(input, 3 * lo - 2)
    ELSE LET mid == (lo + hi) \div 2
         IN  EncodeGroups(input, lo, mid) \o EncodeGroups(input, mid + 1, hi)

\* Engine::encode: three bytes to four symbols, the last one or two bytes to
\* two or three symbols, no '=' appended.
Base64Encode(input) == EncodeGroups(input, 1, (Len(input) + 2) \div 3)

DecodeErr(k, o, b) == [kind |-> k, offset |-> o, byte |-> b, bytes |-> <<>>]

\* Offset (0-based) at which the decoder's last block of at most 8 symbols
\* starts; everything before it is decoded as whole blocks.
SuffixStart(n) ==
    IF n = 0 THEN 0
    ELSE IF n % 8 = 0 THEN n - 8
    ELSE n - (n % 8)

\* The whole blocks before the last one: the first byte that is not a symbol
\* ('=' included) is an InvalidByte.  0-based offset, or -1 when there is none.
FirstInvalid(input, stop) ==
    LET bad == {i \in 0 .. (stop - 1) : ValueOf(input[i + 1]) = INVALID_VALUE}
    IN  IF bad = {} THEN -1
        ELSE CHOOSE i \in bad : \A j \in bad : i <= j

\* decode_suffix: the scan of the last block.  i, firstPad are offsets within
\* the block; pad counts '=' seen, morsels the symbols seen.
RECURSIVE SuffixScan(_, _, _, _, _, _, _)
SuffixScan(input, start, i, pad, firstPad, morsels, last) ==
    IF start + i >= Len(input)
    THEN [kind |-> "Scanned", pad |-> pad, morsels |-> morsels, last |-> last,
          offset |-> 0, byte |-> 0]
    ELSE LET b == input[start + i + 1] IN
         IF b = PAD_BYTE
         THEN IF i % 4 < 2
              THEN [kind |-> "InvalidByte", pad |-> pad, morsels |-> morsels,
                    last |-> last,
                    offset |-> start + (IF pad > 0 THEN firstPad ELSE i),
                    byte |-> b]
              ELSE SuffixScan(input, start, i + 1, pad + 1,
                              IF pad = 0 THEN i ELSE firstPad, morsels, last)
         ELSE IF pad > 0
              THEN [kind |-> "InvalidByte", pad |-> pad, morsels |-> morsels,
                    last |-> last, offset |-> start + firstPad,
                    byte |-> PAD_BYTE]
         ELSE IF ValueOf(b) = INVALID_VALUE
              THEN [kind |-> "InvalidByte", pad |-> pad, morsels |-> morsels,
                    last |-> last, offset |-> start + i, byte |-> b]
         ELSE SuffixScan(input, start, i + 1, pad, firstPad, morsels + 1, b)

\* The bytes carried by the group of up to four symbols that starts at
\* input[i]: four symbols give three bytes, three give two, two give one.
DecodeGroup(input, i) ==
    LET m == Len(input)
        a == ValueOf(input[i])
        b == ValueOf(input[i + 1])
    IN  IF i + 3 <= m
        THEN LET c == ValueOf(input[i + 2])
                 d == ValueOf(input[i + 3])
             IN  << a * 4 + (b \div 16), (b % 16) * 16 + (c \div 4),
                    (c % 4) * 64 + d >>
        ELSE IF i + 2 = m
             THEN LET c == ValueOf(input[i + 2])
                  IN  << a * 4 + (b \div 16), (b % 16) * 16 + (c \div 4) >>
        ELSE << a * 4 + (b \div 16) >>

\* The bytes of groups lo..hi (group g starts at symbol 4g - 3), in order.
RECURSIVE DecodeGroups(_, _, _)
DecodeGroups(input, lo, hi) ==
    IF lo > hi THEN <<>>
    ELSE IF lo = hi THEN DecodeGroup(input, 4 * lo - 3)
    ELSE LET mid == (lo + hi) \div 2
         IN  DecodeGroups(input, lo, mid) \o DecodeGroups(input, mid + 1, hi)

\* Variant: an engine configured with decode_allow_trailing_bits(true).
TrailingBits_allowed(last, morsels) == 0

\* The bits of the last symbol that no output byte takes.
TrailingBits(last, morsels) ==
    IF morsels % 4 = 2 THEN ValueOf(last) % 16
    ELSE IF morsels % 4 = 3 THEN ValueOf(last) % 4
    ELSE 0

\* Engine::decode on the bytes of the text: a DecodeError, or kind "Ok" with
\* the decoded bytes.
Base64Decode(input) ==
    LET n == Len(input)
        start == SuffixStart(n)
    IN  IF n % 4 = 1
        THEN IF Last(input) # PAD_BYTE /\ ValueOf(Last(input)) = INVALID_VALUE
             THEN DecodeErr("InvalidByte", n - 1, Last(input))
             ELSE DecodeErr("InvalidLength", 0, 0)
        ELSE LET bad == FirstInvalid(input, start) IN
             IF bad >= 0 THEN DecodeErr("InvalidByte", bad, input[bad + 1])
             ELSE LET sc == SuffixScan(input, start, 0, 0, 0, 0, 0) IN
                  IF sc.kind = "InvalidByte"
                  THEN DecodeErr("InvalidByte", sc.offset, sc.byte)
                  ELSE IF sc.pad > 0 THEN DecodeErr("InvalidPadding", 0, 0)
                  ELSE IF TrailingBits(sc.last, sc.morsels) # 0
                       THEN DecodeErr("InvalidLastSymbol",
                                      start + sc.morsels - 1, sc.last)
                  ELSE [kind |-> "Ok", offset |-> 0, byte |-> 0,
                        bytes |-> DecodeGroups(input, 1, (n + 3) \div 4)]

\* DecodeError's Display, as err.to_string() renders it: the fixed wording of
\* the variant and the numbers it prints.
DecodeErrorToString(e) ==
    [text |-> CASE e.kind = "InvalidByte" -> "Invalid byte {}, offset {}."
                [] e.kind = "InvalidLength" ->
                       "Encoded text cannot have a 6-bit remainder."
                [] e.kind = "InvalidLastSymbol" ->
                       "Invalid last symbol {}, offset {}."
                [] OTHER -> "Invalid padding",
     offset |-> e.offset, byte |-> e.byte]

NoMessage == [text |-> "", offset |-> 0, byte |-> 0]

---------------------------------------------------------------------------
(* The codec: struct TaggedBase64 { tag, value, checksum } and its         *)
(* operations.  A Result is a record whose kind is "Ok" or the name of the *)
(* Tb64Error variant.                                                      *)

TB64_DELIM == 126

\* The value slot of a Result that carries no value.
NoValue == [tag |-> <<>>, value |-> <<>>, checksum |-> 0]

Ok(v) == [kind |-> "Ok", val |-> v, message |-> NoMessage]

Err(k) == [kind |-> k, val |-> NoValue, message |-> NoMessage]

\* A panic (failed assert!, arithmetic overflow, index out of range).
Panic == [kind |-> "Panic", val |-> NoValue, message |-> NoMessage]

Unit == [kind |-> "Ok", val |-> NoValue, message |-> NoMessage]

is_ascii_alphanumeric(c) ==
    \/ c >= 65 /\ c <= 90
    \/ c >= 97 /\ c <= 122
    \/ c >= 48 /\ c <= 57

\* Variant: char::is_alphanumeric (Unicode letters and digits, here the
\* Greek and Cyrillic blocks) in place of is_ascii_alphanumeric.
is_safe_base64_ascii_unicode(c) ==
    is_ascii_alphanumeric(c) \/ (c >= 880 /\ c <= 1279) \/ c = 45 \/ c = 95

\* Variant: the punctuation of the standard alphabet, '+' and '/', in place
\* of that of the URL-safe one.
is_safe_base64_ascii_standard(c) ==
    is_ascii_alphanumeric(c) \/ c = 43 \/ c = 47

is_safe_base64_ascii(c) ==
    is_ascii_alphanumeric(c) \/ c = 45 \/ c = 95

is_safe_base64_tag(tag) ==
    \A i \in 1 .. Len(tag) : is_safe_base64_ascii(tag[i])

\* Variant: the payload is never fed to the CRC.
calc_checksum_tag_only(tag, value) ==
    LET crc8 == digest(0, Utf8Bytes(tag))
    IN  Xor8(crc8, Len(value) % U8Modulus)

\* Variant: the length mixed in is that of tag and payload together.
calc_checksum_total_len(tag, value) ==
    LET crc8 == digest(digest(0, Utf8Bytes(tag)), value)
    IN  Xor8(crc8, (Len(Utf8Bytes(tag)) + Len(value)) % U8Modulus)

\* Variant: the tag is never fed to the CRC.
calc_checksum_value_only(tag, value) ==
    LET crc8 == digest(0, value)
    IN  Xor8(crc8, Len(value) % U8Modulus)

\* Variant: the CRC alone, with no length mixed in.
calc_checksum_no_length(tag, value) ==
    digest(digest(0, Utf8Bytes(tag)), value)

calc_checksum(tag, value) ==
    LET crc8 == digest(digest(0, Utf8Bytes(tag)), value)
    IN  Xor8(crc8, Len(value) % U8Modulus)

\* Variant: an engine that pads its output with '=' to a multiple of four.
encode_raw_padded(input) ==
    LET e == Base64Encode(input)
    IN  e \o [i \in 1 .. ((4 - (Len(e) % 4)) % 4) |-> PAD_BYTE]

encode_raw(input) == Base64Encode(input)

\* impl From<base64::DecodeError> for Tb64Error
FromDecodeError(e) ==
    [kind |-> "Base64", bytes |-> <<>>, message |-> DecodeErrorToString(e)]

\* Variant: a decoder that answers what it has decoded so far, nothing for a
\* text it cannot decode, instead of an error.
decode_raw_lossy(value) ==
    LET r == Base64Decode(Utf8Bytes(value))
    IN  [kind |-> "Ok", bytes |-> r.bytes, message |-> NoMessage]

decode_raw(value) ==
    LET r == Base64Decode(Utf8Bytes(value))
    IN  IF r.kind = "Ok"
        THEN [kind |-> "Ok", bytes |-> r.bytes, message |-> NoMessage]
        ELSE FromDecodeError(r)

new(tag, value) ==
    IF is_safe_base64_tag(tag)
    THEN Ok([tag |-> tag, value |-> value,
             checksum |-> calc_checksum(tag, value)])
    ELSE Err("InvalidTag")

\* Variant: find that answers the end of the string when there is no
\* delimiter, so that the whole string is taken for the tag.
find_or_end(s, c) ==
    IF \E i \in 1 .. Len(s) : s[i] = c
    THEN CHOOSE i \in 1 .. Len(s) : s[i] = c /\ \A j \in 1 .. (i - 1) : s[j] # c
    ELSE Len(s) + 1

\* str::find(TB64_DELIM): position of the first delimiter, 0 for None.
find(s, c) ==
    IF \E i \in 1 .. Len(s) : s[i] = c
    THEN CHOOSE i \in 1 .. Len(s) : s[i] = c /\ \A j \in 1 .. (i - 1) : s[j] # c
    ELSE 0

\* Variant: the checksum is recomputed over all decoded bytes, the checksum
\* byte included.
parse_whole_slice(tb64) ==
    LET delim_pos == find(tb64, TB64_DELIM) IN
    IF delim_pos = 0 THEN Err("MissingDelimiter")
    ELSE LET tag == SubSeq(tb64, 1, delim_pos - 1)
             value == SubSeq(tb64, delim_pos + 1, Len(tb64))
         IN  IF ~is_safe_base64_tag(tag) THEN Err("InvalidTag")
             ELSE IF value = <<>> THEN Err("MissingChecksum")
             ELSE LET d == decode_raw(value) IN
                  IF d.kind # "Ok"
                  THEN [kind |-> d.kind, val |-> NoValue, message |-> d.message]
                  ELSE IF Len(d.bytes) = 0 THEN Panic
                  ELSE LET cs == Last(d.bytes)
                           payload == Front(d.bytes)
                       IN  IF cs = calc_checksum(tag, d.bytes)
                           THEN Ok([tag |-> tag, value |-> payload,
                                    checksum |-> cs])
                           ELSE Err("InvalidChecksum")

\* Variant: the body is examined before the tag.
parse_body_first(tb64) ==
    LET delim_pos == find(tb64, TB64_DELIM) IN
    IF delim_pos = 0 THEN Err("MissingDelimiter")
    ELSE LET tag == SubSeq(tb64, 1, delim_pos - 1)
             value == SubSeq(tb64, delim_pos + 1, Len(tb64))
         IN  IF value = <<>> THEN Err("MissingChecksum")
             ELSE LET d == decode_raw(value) IN
                  IF d.kind # "Ok"
                  THEN [kind |-> d.kind, val |-> NoValue, message |-> d.message]
                  ELSE IF ~is_safe_base64_tag(tag) THEN Err("InvalidTag")
                  ELSE IF Len(d.bytes) = 0 THEN Panic
                  ELSE LET cs == Last(d.bytes)
                           payload == Front(d.bytes)
                       IN  IF cs = calc_checksum(tag, payload)
                           THEN Ok([tag |-> tag, value |-> payload,
                                    checksum |-> cs])
                           ELSE Err("InvalidChecksum")

\* Variant: no test for an empty body; bytes.len() - 1 then underflows.
parse_unchecked_body(tb64) ==
    LET delim_pos == find(tb64, TB64_DELIM) IN
    IF delim_pos = 0 THEN Err("MissingDelimiter")
    ELSE LET tag == SubSeq(tb64, 1, delim_pos - 1)
             value == SubSeq(tb64, delim_pos + 1, Len(tb64))
         IN  IF ~is_safe_base64_tag(tag) THEN Err("InvalidTag")
             ELSE LET d == decode_raw(value) IN
                  IF d.kind # "Ok"
                  THEN [kind |-> d.kind, val |-> NoValue, message |-> d.message]
                  ELSE IF Len(d.bytes) = 0 THEN Panic
                  ELSE LET cs == Last(d.bytes)
                           payload == Front(d.bytes)
                       IN  IF cs = calc_checksum(tag, payload)
                           THEN Ok([tag |-> tag, value |-> payload,
                                    checksum |-> cs])
                           ELSE Err("InvalidChecksum")

\* Variant: delimiters after the first are dropped from the body.
parse_skip_delims(tb64) ==
    LET delim_pos == find(tb64, TB64_DELIM) IN
    IF delim_pos = 0 THEN Err("MissingDelimiter")
    ELSE LET tag == SubSeq(tb64, 1, delim_pos - 1)
             value == SelectSeq(SubSeq(tb64, delim_pos + 1, Len(tb64)),
                                LAMBDA c : c # TB64_DELIM)
         IN  IF ~is_safe_base64_tag(tag) THEN Err("InvalidTag")
             ELSE IF value = <<>> THEN Err("MissingChecksum")
             ELSE LET d == decode_raw(value) IN
                  IF d.kind # "Ok"
                  THEN [kind |-> d.kind, val |-> NoValue, message |-> d.message]
                  ELSE IF Len(d.bytes) = 0 THEN Panic
                  ELSE LET cs == Last(d.bytes)
                           payload == Front(d.bytes)
                       IN  IF cs = calc_checksum(tag, payload)
                           THEN Ok([tag |-> tag, value |-> payload,
                                    checksum |-> cs])
                           ELSE Err("InvalidChecksum")

parse(tb64) ==
    LET delim_pos == find(tb64, TB64_DELIM) IN
    IF delim_pos = 0 THEN Err("MissingDelimiter")
    ELSE LET tag == SubSeq(tb64, 1, delim_pos - 1)
             value == SubSeq(tb64, delim_pos + 1, Len(tb64))
         IN  IF ~is_safe_base64_tag(tag) THEN Err("InvalidTag")
             ELSE IF value = <<>> THEN Err("MissingChecksum")
             ELSE LET d == decode_raw(value) IN
                  IF d.kind # "Ok"
                  THEN [kind |-> d.kind, val |-> NoValue, message |-> d.message]
                  ELSE IF Len(d.bytes) = 0 THEN Panic
                  ELSE LET cs == Last(d.bytes)
                           payload == Front(d.bytes)
                       IN  IF cs = calc_checksum(tag, payload)
                           THEN Ok([tag |-> tag, value |-> payload,
                                    checksum |-> cs])
                           ELSE Err("InvalidChecksum")

\* Variant: the body is the payload alone, without the checksum byte.
to_string_no_checksum(t) ==
    t.tag \o <<TB64_DELIM>> \o encode_raw(t.value)

to_string(t) ==
    t.tag \o <<TB64_DELIM>> \o encode_raw(Append(t.value, t.checksum))

\* impl From<&TaggedBase64> for String
String_from(t) == to_string(t)

\* impl fmt::Display for TaggedBase64
Display_fmt(t) == to_string(t)

\* Variant: set_tag without its assert!.
set_tag_unchecked(self, tag) ==
    [panic |-> FALSE,
     self |-> [tag |-> tag, value |-> self.value,
               checksum |-> calc_checksum(tag, self.value)]]

\* tag(&self) -> String: self.tag.clone()
TaggedBase64_tag(self) == self.tag

\* value(&self) -> Vec<u8>: self.value.clone()
TaggedBase64_value(self) == self.value

\* Variant: set_tag that also empties the payload.
set_tag_clears_value(self, tag) ==
    IF ~is_safe_base64_tag(tag)
    THEN [panic |-> TRUE, self |-> self]
    ELSE [panic |-> FALSE,
          self |-> [tag |-> tag, value |-> <<>>,
                    checksum |-> calc_checksum(tag, <<>>)]]

\* set_tag: the assert! fails before anything is written.
set_tag(self, tag) ==
    IF ~is_safe_base64_tag(tag)
    THEN [panic |-> TRUE, self |-> self]
    ELSE [panic |-> FALSE,
          self |-> [tag |-> tag, value |-> self.value,
                    checksum |-> calc_checksum(tag, self.value)]]

\* Variant: set_value that leaves the stored checksum as it was.
set_value_stale(self, value) ==
    [panic |-> FALSE,
     self |-> [tag |-> self.tag, value |-> value, checksum |-> self.checksum]]

\* Variant: set_value that appends to the payload instead of replacing it.
set_value_appends(self, value) ==
    [panic |-> FALSE,
     self |-> [tag |-> self.tag, value |-> self.value \o value,
               checksum |-> calc_checksum(self.tag, self.value \o value)]]

set_value(self, value) ==
    [panic |-> FALSE,
     self |-> [tag |-> self.tag, value |-> value,
               checksum |-> calc_checksum(self.tag, value)]]

---------------------------------------------------------------------------
(* The impls the attribute macro `tagged` generates for a type T.  T is     *)
(* taken to be a struct of one bool, #[tagged("A")], whose canonical       *)
(* serialization is the byte 0 or 1; deserialization reads one byte from   *)
(* the front of the payload and rejects any other byte and the empty       *)
(* payload.  A result carries the value of T as a set of at most one.      *)

\* impl Tagged for T: fn tag(), "A".
T_tag == <<65>>

\* CanonicalSerialize::serialize_uncompressed(x, &mut bytes)
T_serialize(x) == <<IF x THEN 1 ELSE 0>>

\* <T as CanonicalDeserialize>::deserialize_uncompressed_unchecked(bytes)
T_deserialize(bytes) ==
    IF bytes = <<>> THEN [ok |-> FALSE, x |-> {}]
    ELSE IF bytes[1] = 0 THEN [ok |-> TRUE, x |-> {FALSE}]
    ELSE IF bytes[1] = 1 THEN [ok |-> TRUE, x |-> {TRUE}]
    ELSE [ok |-> FALSE, x |-> {}]

TypedOk(x) == [kind |-> "Ok", x |-> x, message |-> NoMessage]

TypedErr(k, m) == [kind |-> k, x |-> {}, message |-> m]

\* impl TryFrom<&TaggedBase64> for T (TryFrom<TaggedBase64> defers to it)
T_try_from(t) ==
    IF t.tag = T_tag
    THEN LET d == T_deserialize(t.value) IN
         IF d.ok THEN TypedOk(d.x) ELSE TypedErr("InvalidData", NoMessage)
    ELSE TypedErr("InvalidTag", NoMessage)

\* impl From<&T> for TaggedBase64: Self::new(&T::tag(), &bytes).unwrap()
T_from(x) ==
    LET bytes == T_serialize(x)
        r == new(T_tag, bytes)
    IN  IF r.kind = "Ok" THEN r ELSE Panic

\* Variant: a Display for T that writes the payload without its checksum.
T_fmt_no_checksum(x) ==
    LET t == T_from(x).val IN t.tag \o <<TB64_DELIM>> \o encode_raw(t.value)

\* impl Display for T: write!(f, "{}", TaggedBase64::from(self))
T_fmt(x) == Display_fmt(T_from(x).val)

\* impl FromStr for TaggedBase64
from_str(s) == parse(s)

\* u64::serialize_with_mode: eight bytes, least significant first (the
\* lengths written here are below 65536).
U64Bytes(n) == <<n % 256, (n \div 256) % 256, 0, 0, 0, 0, 0, 0>>

\* u64::deserialize_with_mode at bytes[at..at+7]: -1 when the input ends
\* first; a length of 65536 or more is answered as 65536, more than any input
\* here holds.
ReadU64(bytes, at) ==
    IF at + 7 > Len(bytes) THEN -1
    ELSE IF \E i \in 2 .. 7 : bytes[at + i] # 0 THEN 65536
    ELSE bytes[at] + 256 * bytes[at + 1]

\* derive(CanonicalSerialize): the fields in order; a String and a Vec<u8>
\* are a u64 length and the bytes, the checksum is one byte.
serialize_compressed(t) ==
    U64Bytes(Len(Utf8Bytes(t.tag))) \o Utf8Bytes(t.tag)
        \o U64Bytes(Len(t.value)) \o t.value \o <<t.checksum>>

\* derive(CanonicalDeserialize): the fields are read in order and stored as
\* read.  A String must be UTF-8; nothing else is checked, and bytes after
\* the checksum are left unread.
deserialize_compressed_unchecked(bytes) ==
    LET readChecksum(tag, value, at) ==
            IF at > Len(bytes) THEN Err("IoError")
            ELSE Ok([tag |-> tag, value |-> value, checksum |-> bytes[at]])
        readValue(tag, at, n) ==
            IF n < 0 \/ at + 8 + n - 1 > Len(bytes) THEN Err("IoError")
            ELSE readChecksum(tag, SubSeq(bytes, at + 8, at + 8 + n - 1),
                              at + 8 + n)
        readTagChars(u, at) ==
            IF ~u.ok THEN Err("InvalidData")
            ELSE readValue(u.s, at, ReadU64(bytes, at))
        readTag(n) ==
            IF n < 0 \/ 8 + n > Len(bytes) THEN Err("IoError")
            ELSE readTagChars(from_utf8(SubSeq(bytes, 9, 8 + n)), 9 + n)
    IN  readTag(ReadU64(bytes, 1))

\* D::Error::custom: the error of the deserializer's format, made from the
\* failure's text.
serde_custom(r) ==
    IF r.kind = "Ok" THEN r
    ELSE [kind |-> "Custom", val |-> NoValue, message |-> r.message]

\* impl Deserialize for TaggedBase64, for a deserializer that is human
\* readable and holds the string s.
deserialize_human_readable(s) == serde_custom(from_str(s))

\* impl Deserialize for TaggedBase64, for a binary deserializer that holds
\* the byte vector bytes.
deserialize_binary(bytes) ==
    serde_custom(deserialize_compressed_unchecked(bytes))

\* impl Serialize for TaggedBase64: the string or the byte vector handed to
\* the serializer.
serialize(t, human_readable) ==
    IF human_readable THEN to_string(t) ELSE serialize_compressed(t)

\* impl FromStr for T:
\* Self::try_from(TaggedBase64::from_str(s)?).map_err(|_| InvalidData)
T_from_str(s) ==
    LET map_err(r) ==
            IF r.kind = "Ok" THEN r ELSE TypedErr("InvalidData", NoMessage)
        try(p) ==
            IF p.kind # "Ok" THEN TypedErr(p.kind, p.message)
            ELSE map_err(T_try_from(p.val))
    IN  try(from_str(s))

---------------------------------------------------------------------------
(* The command-line program (main.rs).  Its two options are Option<String> *)
(* values, here sets of at most one string; a run is recorded by its exit  *)
(* code, what it wrote to standard output, whether it read standard input  *)
(* and which codec operation it called.                                    *)

\* std::process::exit codes of main, and the code of a panicking process.
EXIT_OK == 0

EXIT_ERROR == 1

EXIT_USAGE == 2

EXIT_PANIC == 101

Run(decode, tag, stdin, exit, kind, data, read, codec) ==
    [decode |-> decode, tag |-> tag, stdin |-> stdin, ran |-> TRUE,
     exit |-> exit, stdout |-> [kind |-> kind, data |-> data],
     read |-> read, codec |-> codec]

\* Variant: --decode is obeyed whenever it is given, --tag or not.
main_decode_wins(decode, tag, stdin) ==
    IF decode = {} /\ tag = {}
    THEN Run(decode, tag, stdin, EXIT_USAGE, "usage", <<>>, FALSE, "none")
    ELSE IF decode # {}
    THEN LET r == parse(CHOOSE s \in decode : TRUE) IN
         IF r.kind = "Ok"
         THEN Run(decode, tag, stdin, EXIT_OK, "raw", r.val.value, FALSE,
                  "parse")
         ELSE Run(decode, tag, stdin, EXIT_ERROR, "error", <<>>, FALSE,
                  "parse")
    ELSE LET r == new(CHOOSE t \in tag : TRUE, stdin) IN
         IF r.kind = "Ok"
         THEN Run(decode, tag, stdin, EXIT_OK, "line", Display_fmt(r.val),
                  TRUE, "new")
         ELSE Run(decode, tag, stdin, EXIT_PANIC, "none", <<>>, TRUE, "new")

\* fn main(), after clap has parsed the arguments
main(decode, tag, stdin) ==
    IF (decode # {}) = (tag # {})
    THEN Run(decode, tag, stdin, EXIT_USAGE, "usage", <<>>, FALSE, "none")
    ELSE IF decode # {}
    THEN LET r == parse(CHOOSE s \in decode : TRUE) IN
         IF r.kind = "Ok"
         THEN Run(decode, tag, stdin, EXIT_OK, "raw", r.val.value, FALSE,
                  "parse")
         ELSE Run(decode, tag, stdin, EXIT_ERROR, "error", <<>>, FALSE,
                  "parse")
    ELSE LET r == new(CHOOSE t \in tag : TRUE, stdin) IN
         IF r.kind = "Ok"
         THEN Run(decode, tag, stdin, EXIT_OK, "line", Display_fmt(r.val),
                  TRUE, "new")
         ELSE Run(decode, tag, stdin, EXIT_PANIC, "none", <<>>, TRUE, "new")

---------------------------------------------------------------------------
(* Inputs.  Characters are written as code points:                         *)
(*   'A' 65  'E' 69  'F' 70  'G' 71  'T' 84  'Z' 90  'g' 103  'w' 119      *)
(*   '9' 57  '-' 45  '_' 95  '~' 126  '/' 47  '=' 61  '!' 33  ' ' 32       *)
(*   ',' 44  '&' 38  U+03A3 (capital sigma) 931                            *)

BoundedSeqs(S, n) == UNION {[1 .. k -> S] : k \in 0 .. n}

\* Tags over a safe letter, a safe punctuation mark and the delimiter.
CoreTags == BoundedSeqs({65, 95, 126}, MaxTagLen)

\* One tag for each remaining class of character, and tags of the test suite:
\* "g" "z" "9" "-" "/" " " "," "!" sigma, "TAG" "Zg" "A/A" "c~d".
ProbeTags ==
    { <<103>>, <<122>>, <<57>>, <<45>>, <<47>>, <<32>>, <<44>>, <<33>>, <<931>>,
      <<84, 65, 71>>, <<90, 103>>, <<65, 47, 65>>, <<99, 126, 100>> }

NewTags == CoreTags \cup ProbeTags

\* Tags handed to set_tag: over a safe letter and the delimiter, and sigma.
SetTags == BoundedSeqs({65, 126}, MaxTagLen) \cup {<<931>>}

Values == BoundedSeqs({0, 102, 255}, MaxValueLen)

\* A payload whose length does not fit a u8.
LongValue == [i \in 1 .. U8Modulus |-> 0]

\* Payloads handed to set_value.
SetValues == BoundedSeqs({0, 255}, MaxValueLen) \cup {LongValue}

\* Text over symbols with zero and nonzero low bits, the delimiter, the
\* padding character and a character outside every alphabet.
StrChars == {65, 69, 70, 119, 126, 61, 33}

\* Strings of the test suite: "AAA~AAA" "AAA~AAAAA" "AAA~AAF" "TAG~Ew"
\* "A~wA" "-_~Zm9vYmFy" "&_~wA" "AAA~" sigma"~AA" "a~".
ParseLiterals ==
    { <<65, 65, 65, 126, 65, 65, 65>>,
      <<65, 65, 65, 126, 65, 65, 65, 65, 65>>,
      <<65, 65, 65, 126, 65, 65, 70>>,
      <<84, 65, 71, 126, 69, 119>>,
      <<65, 126, 119, 65>>,
      <<45, 95, 126, 90, 109, 57, 118, 89, 109, 70, 121>>,
      <<38, 95, 126, 119, 65>>,
      <<65, 65, 65, 126>>,
      <<931, 126, 65, 65>>,
      <<97, 126>> }

ParseInputs == BoundedSeqs(StrChars, MaxStrLen) \cup ParseLiterals

\* Canonical strings with the tags "A" and "_" and the payloads [0], [1],
\* [2] and [1, 0], which are, are not, or start with a serialization of T:
\* "A~AE8" "A~AUg" "A~AkE" "A~AQD6" "_~AM4" "_~Ack" "_~AsA" "_~AQB0".
TypedStrs ==
    { <<65, 126, 65, 69, 56>>, <<65, 126, 65, 85, 103>>,
      <<65, 126, 65, 107, 69>>, <<65, 126, 65, 81, 68, 54>>,
      <<95, 126, 65, 77, 52>>, <<95, 126, 65, 99, 107>>,
      <<95, 126, 65, 115, 65>>, <<95, 126, 65, 81, 66, 48>> }

FromStrInputs == ParseInputs \cup TypedStrs

\* An option that is absent, or present with one of the strings.
Optional(S) == {{}} \cup {{s} : s \in S}

\* --decode arguments: the strings of the test suite and the empty string.
DecodeArgs == Optional(ParseLiterals \cup {<<>>})

\* --tag arguments.
TagArgs == Optional(CoreTags \cup {<<84, 65, 71>>})

\* Standard input.
Stdins == {<<>>, <<102>>, <<0, 255>>}

\* Characters asked of the predicate: ASCII and Latin-1, and beyond them
\* capital sigma, Cyrillic capital A, fullwidth A, a character outside the
\* basic plane.
PredicateChars == (0 .. 255) \cup {931, 1040, 65313, 128512}

\* Tags asked of is_safe_base64_tag, among them "", "~", "T~", "T~a".
PredicateTags ==
    NewTags \cup {<<84, 126>>, <<84, 126, 97>>}

---------------------------------------------------------------------------
(* The state machine: a client that builds one value, works on it and      *)
(* lets it go.  pc is "idle" (no value), "live" (tb is the value),         *)
(* "failed" (the constructor returned Err), "panicked", or "answered" (a   *)
(* call that keeps no value has returned).  typed holds the two values of  *)
(* the tagged type T a conversion goes from and to, each as a set with at  *)
(* most one element.  cli holds one run of the command-line program: its  *)
(* arguments and standard input, and what it did.                         *)

\* Fields of binary inputs: the tags "", "A", "~" and "TAG", three payloads,
\* and checksum bytes among which are the checksums of ("TAG", []) and
\* ("A", []).
WireTags == {<<>>, <<65>>, <<126>>, <<84, 65, 71>>}

WireValues == {<<>>, <<0>>, <<102, 255>>}

WireChecksums == {0, 19, 192, 255}

\* Byte vectors handed to the binary deserializer: well-formed encodings of
\* the fields, one of them followed by a byte, some cut short, one whose tag
\* is not UTF-8 and one whose length does not fit the input.
BinaryInputs ==
    { U64Bytes(Len(t)) \o t \o U64Bytes(Len(v)) \o v \o <<c>> :
          t \in WireTags, v \in WireValues, c \in WireChecksums }
    \cup { <<>>, <<1, 0, 0>>, U64Bytes(1) \o <<65>>,
           U64Bytes(1) \o <<65>> \o U64Bytes(0),
           U64Bytes(1) \o <<65>> \o U64Bytes(2) \o <<0, 192>>,
           U64Bytes(1) \o <<65>> \o U64Bytes(0) \o <<192, 7>>,
           U64Bytes(1) \o <<255>> \o U64Bytes(0) \o <<0>>,
           <<0, 0, 0, 1, 0, 0, 0, 0>> \o U64Bytes(0) \o <<0>> }

\* Strings handed to the human-readable deserializer.
HumanReadableInputs == ParseLiterals \cup BoundedSeqs(StrChars, MaxStrLen - 1)

\* Tags and payloads handed to the setters while two values are held.
PairTags == {<<>>, <<66>>}

PairValues == {<<0, 0>>, LongValue}

\* No value of T on either side.
NoTyped == [from |-> {}, to |-> {}]

\* The program has not run.
NoCli ==
    [decode |-> {}, tag |-> {}, stdin |-> <<>>, ran |-> FALSE,
     exit |-> 0, stdout |-> [kind |-> "none", data |-> <<>>],
     read |-> FALSE, codec |-> "none"]

Init ==
    /\ pc = "idle"
    /\ tb = NoValue
    /\ op = "none"
    /\ calls = 0
    /\ inTag = <<>>
    /\ inValue = <<>>
    /\ inStr = <<>>
    /\ res = Unit
    /\ out = <<>>
    /\ typed = NoTyped
    /\ cli = NoCli
    /\ tb2 = {}

\* tb is live and the last step built or changed it.  Render, Reparse and
\* OneBitCorruption look at such a value and leave it as it is, so a run that
\* goes on working after one of them reaches no value that a run without it
\* does not reach.
Fresh == pc = "live" /\ op \in {"new", "parse", "set_tag", "set_value"}

\* let tb = TaggedBase64::new(tag, value)
New(tag, value) ==
    /\ pc = "idle"
    /\ LET r == new(tag, value) IN
       /\ res' = r
       /\ tb' = r.val
       /\ pc' = IF r.kind = "Ok" THEN "live" ELSE "failed"
    /\ op' = "new"
    /\ inTag' = tag
    /\ inValue' = value
    /\ UNCHANGED <<calls, inStr, out>>
    /\ typed' = NoTyped
    /\ cli' = NoCli
    /\ UNCHANGED tb2

\* let tb = TaggedBase64::parse(s)
Parse(s) ==
    /\ pc = "idle"
    /\ \E r \in {parse(s)} :
           /\ res' = r
           /\ tb' = r.val
           /\ pc' = IF r.kind = "Ok" THEN "live"
                    ELSE IF r.kind = "Panic" THEN "panicked" ELSE "failed"
           /\ inTag' = r.val.tag
           /\ inValue' = r.val.value
    /\ op' = "parse"
    /\ inStr' = s
    /\ UNCHANGED <<calls, out>>
    /\ typed' = NoTyped
    /\ cli' = NoCli
    /\ UNCHANGED tb2

\* tb.set_tag(tag)
SetTag(tag) ==
    /\ Fresh
    /\ calls < MaxCalls
    /\ LET r == set_tag(tb, tag) IN
       /\ tb' = r.self
       /\ pc' = IF r.panic THEN "panicked" ELSE "live"
       /\ res' = IF r.panic THEN Panic ELSE Unit
    /\ op' = "set_tag"
    /\ calls' = calls + 1
    /\ inTag' = IF is_safe_base64_tag(tag) THEN tag ELSE inTag
    /\ inValue' = inValue
    /\ inStr' = <<>>
    /\ out' = <<>>
    /\ typed' = NoTyped
    /\ cli' = NoCli
    /\ UNCHANGED tb2

\* tb.set_value(value)
SetValue(value) ==
    /\ Fresh
    /\ calls < MaxCalls
    /\ LET r == set_value(tb, value) IN
       /\ tb' = r.self
       /\ pc' = IF r.panic THEN "panicked" ELSE "live"
       /\ res' = IF r.panic THEN Panic ELSE Unit
    /\ op' = "set_value"
    /\ calls' = calls + 1
    /\ inTag' = inTag
    /\ inValue' = value
    /\ inStr' = <<>>
    /\ out' = <<>>
    /\ typed' = NoTyped
    /\ cli' = NoCli
    /\ UNCHANGED tb2

\* to_string(&tb), format!("{}", tb), String::from(&tb)
Render(via) ==
    /\ Fresh
    /\ out' = CASE via = "to_string" -> to_string(tb)
                [] via = "Display" -> Display_fmt(tb)
                [] OTHER -> String_from(tb)
    /\ op' = via
    /\ res' = Unit
    /\ inStr' = <<>>
    /\ UNCHANGED <<pc, tb, calls, inTag, inValue>>
    /\ typed' = NoTyped
    /\ cli' = NoCli
    /\ UNCHANGED tb2

\* let str = tb.to_string(); let parsed = TaggedBase64::parse(&str)
Reparse ==
    /\ Fresh
    /\ LET str == Display_fmt(tb) IN
       /\ out' = str
       /\ res' = parse(str)
    /\ op' = "reparse"
    /\ inTag' = <<>>
    /\ inValue' = <<>>
    /\ inStr' = <<>>
    /\ UNCHANGED <<pc, tb, calls>>
    /\ typed' = NoTyped
    /\ cli' = NoCli
    /\ UNCHANGED tb2

\* tb.tag() or tb.value(): out is the String or the Vec<u8> returned.
Accessor(which) ==
    /\ Fresh
    /\ out' = IF which = "tag" THEN TaggedBase64_tag(tb)
              ELSE TaggedBase64_value(tb)
    /\ op' = which
    /\ res' = Unit
    /\ inTag' = <<>>
    /\ inValue' = <<>>
    /\ inStr' = <<>>
    /\ UNCHANGED <<pc, tb, calls>>
    /\ typed' = NoTyped
    /\ cli' = NoCli
    /\ UNCHANGED tb2

\* encoded_bytes[ix] ^= 1 << shift
FlipBit(bytes, ix, shift) ==
    [bytes EXCEPT ![ix + 1] = Xor8(bytes[ix + 1], 2 ^ shift)]

\* The test one_bit_corruption on a freshly constructed value: out is the
\* canonical string, inStr the corrupted text when it is still UTF-8.
OneBitCorruption(ix, shift) ==
    /\ pc = "live"
    /\ op = "new"
    /\ LET str == to_string(tb)
           encoded_bytes == Utf8Bytes(str)
       IN  /\ ix < Len(encoded_bytes)
           /\ LET corrupted == from_utf8(FlipBit(encoded_bytes, ix, shift)) IN
              /\ out' = str
              /\ inStr' = corrupted.s
              /\ res' = IF corrupted.ok THEN parse(corrupted.s)
                        ELSE [kind |-> "NotUtf8", val |-> NoValue,
                              message |-> NoMessage]
    /\ op' = "one_bit_corruption"
    /\ inTag' = <<>>
    /\ inValue' = <<>>
    /\ UNCHANGED <<pc, tb, calls>>
    /\ typed' = NoTyped
    /\ cli' = NoCli
    /\ UNCHANGED tb2

\* The bool a predicate answers, as a result.
Answer(b) ==
    [kind |-> IF b THEN "true" ELSE "false", val |-> NoValue,
     message |-> NoMessage]

\* TaggedBase64::is_safe_base64_ascii(c)
IsSafeAscii(c) ==
    /\ pc = "idle"
    /\ pc' = "answered"
    /\ op' = "is_safe_base64_ascii"
    /\ inTag' = <<c>>
    /\ res' = Answer(is_safe_base64_ascii(c))
    /\ UNCHANGED <<tb, calls, inValue, inStr, out>>
    /\ typed' = NoTyped
    /\ cli' = NoCli
    /\ UNCHANGED tb2

\* TaggedBase64::is_safe_base64_tag(tag)
IsSafeTag(tag) ==
    /\ pc = "idle"
    /\ pc' = "answered"
    /\ op' = "is_safe_base64_tag"
    /\ inTag' = tag
    /\ res' = Answer(is_safe_base64_tag(tag))
    /\ UNCHANGED <<tb, calls, inValue, inStr, out>>
    /\ typed' = NoTyped
    /\ cli' = NoCli
    /\ UNCHANGED tb2

\* tb is live and the last step built or changed it.
Convertible ==
    pc = "live" /\ op \in {"new", "parse", "set_tag", "set_value", "from"}

\* What a conversion to T returned, as a result without a TaggedBase64.
TypedRes(r) == [kind |-> r.kind, val |-> NoValue, message |-> r.message]

\* let tb = TaggedBase64::from(&x)
From(x) ==
    /\ pc = "idle"
    /\ LET r == T_from(x) IN
       /\ res' = r
       /\ tb' = r.val
       /\ pc' = IF r.kind = "Ok" THEN "live" ELSE "panicked"
    /\ op' = "from"
    /\ typed' = [from |-> {x}, to |-> {}]
    /\ UNCHANGED <<calls, inTag, inValue, inStr, out>>
    /\ cli' = NoCli
    /\ UNCHANGED tb2

\* T::try_from(&tb)
TryFrom ==
    /\ Convertible
    /\ LET r == T_try_from(tb) IN
       /\ res' = TypedRes(r)
       /\ typed' = [from |-> typed.from, to |-> r.x]
    /\ op' = "try_from"
    /\ inTag' = <<>>
    /\ inValue' = <<>>
    /\ inStr' = <<>>
    /\ UNCHANGED <<pc, tb, calls, out>>
    /\ cli' = NoCli
    /\ UNCHANGED tb2

\* T::from_str(s)
FromStr(s) ==
    /\ pc = "idle"
    /\ \E r \in {T_from_str(s)} :
          /\ res' = TypedRes(r)
          /\ typed' = [from |-> {}, to |-> r.x]
    /\ pc' = "answered"
    /\ op' = "from_str"
    /\ inStr' = s
    /\ UNCHANGED <<tb, calls, inTag, inValue, out>>
    /\ cli' = NoCli
    /\ UNCHANGED tb2

\* T::from_str(&x.to_string()) for the x that tb was made from
DisplayFromStr ==
    /\ pc = "live"
    /\ op = "from"
    /\ \E x \in typed.from :
          \E str \in {T_fmt(x)} :
             \E r \in {T_from_str(str)} :
                /\ out' = str
                /\ res' = TypedRes(r)
                /\ typed' = [from |-> {x}, to |-> r.x]
    /\ op' = "display_from_str"
    /\ UNCHANGED <<pc, tb, calls, inTag, inValue, inStr>>
    /\ cli' = NoCli
    /\ UNCHANGED tb2

\* One run of the program.
Main(decode, tag, stdin) ==
    /\ pc = "idle"
    /\ pc' = "exited"
    /\ op' = "main"
    /\ cli' = main(decode, tag, stdin)
    /\ typed' = NoTyped
    /\ UNCHANGED <<tb, calls, inTag, inValue, inStr, res, out, tb2>>

\* let tb: TaggedBase64 = Deserialize::deserialize(deserializer), where the
\* deserializer is human readable and holds s, or is binary and holds bytes.
Deserialize(human_readable, s, bytes) ==
    /\ pc = "idle"
    /\ \E r \in {IF human_readable THEN deserialize_human_readable(s)
                 ELSE deserialize_binary(bytes)} :
           /\ res' = r
           /\ tb' = r.val
           /\ pc' = IF r.kind = "Ok" THEN "live"
                    ELSE IF r.kind = "Panic" THEN "panicked" ELSE "failed"
    /\ op' = IF human_readable THEN "deserialize_str" ELSE "deserialize_bytes"
    /\ inStr' = s
    /\ inValue' = bytes
    /\ UNCHANGED <<calls, inTag, out>>
    /\ typed' = NoTyped
    /\ cli' = NoCli
    /\ UNCHANGED tb2

\* let bytes = serialize(tb); let tb2 = deserialize(bytes), both binary or
\* both human readable.
SerializeDeserialize(human_readable) ==
    /\ Fresh
    /\ \E w \in {serialize(tb, human_readable)} :
           /\ out' = w
           /\ res' = IF human_readable THEN deserialize_human_readable(w)
                     ELSE deserialize_binary(w)
    /\ op' = IF human_readable THEN "serde_str" ELSE "serde_bytes"
    /\ inTag' = <<>>
    /\ inValue' = <<>>
    /\ inStr' = <<>>
    /\ UNCHANGED <<pc, tb, calls>>
    /\ typed' = NoTyped
    /\ cli' = NoCli
    /\ UNCHANGED tb2

\* derive(Clone): a new value with a copy of each field.
clone(self) ==
    [tag |-> self.tag, value |-> self.value, checksum |-> self.checksum]

\* Two values are held: a is tb, b the value in tb2.
PairMode == pc = "live" /\ tb2 # {}

\* The value a name refers to.
Deref(who) == IF who = "a" THEN tb ELSE CHOOSE v \in tb2 : TRUE

\* Variant: both names refer to one object.
Store_aliased(who, v) == tb' = v /\ tb2' = {v}

\* A method taking &mut self writes the value its receiver names, and only it.
Store(who, v) ==
    IF who = "a" THEN tb' = v /\ tb2' = tb2 ELSE tb2' = {v} /\ tb' = tb

\* let b = a.clone(), for a freshly made a with at most one tag character and
\* one payload byte.
Clone ==
    /\ pc = "live" /\ op \in {"new", "parse"} /\ tb2 = {}
    /\ Len(tb.tag) <= 1 /\ Len(tb.value) <= 1
    /\ tb2' = {clone(tb)}
    /\ op' = "clone"
    /\ res' = Unit
    /\ inTag' = <<>>
    /\ inValue' = <<>>
    /\ inStr' = <<>>
    /\ out' = <<>>
    /\ UNCHANGED <<pc, tb, calls>>
    /\ typed' = NoTyped
    /\ cli' = NoCli

\* let b = TaggedBase64::parse(&a.to_string()).unwrap()
ParseCopy ==
    /\ pc = "live" /\ op \in {"new", "parse"} /\ tb2 = {}
    /\ Len(tb.tag) <= 1 /\ Len(tb.value) <= 1
    /\ \E r \in {parse(to_string(tb))} :
           /\ r.kind = "Ok"
           /\ tb2' = {r.val}
           /\ res' = r
    /\ op' = "parse_copy"
    /\ inTag' = <<>>
    /\ inValue' = <<>>
    /\ inStr' = <<>>
    /\ out' = <<>>
    /\ UNCHANGED <<pc, tb, calls>>
    /\ typed' = NoTyped
    /\ cli' = NoCli

\* a.set_tag(tag) or b.set_tag(tag)
PairSetTag(who, tag) ==
    /\ PairMode
    /\ calls < MaxCalls
    /\ \E r \in {set_tag(Deref(who), tag)} :
           /\ Store(who, r.self)
           /\ pc' = IF r.panic THEN "panicked" ELSE "live"
           /\ res' = IF r.panic THEN Panic ELSE Unit
    /\ op' = IF who = "a" THEN "set_tag_a" ELSE "set_tag_b"
    /\ calls' = calls + 1
    /\ inTag' = <<>>
    /\ inValue' = <<>>
    /\ inStr' = <<>>
    /\ out' = <<>>
    /\ typed' = NoTyped
    /\ cli' = NoCli

\* a.set_value(value) or b.set_value(value)
PairSetValue(who, value) ==
    /\ PairMode
    /\ calls < MaxCalls
    /\ \E r \in {set_value(Deref(who), value)} :
           /\ Store(who, r.self)
           /\ pc' = IF r.panic THEN "panicked" ELSE "live"
           /\ res' = IF r.panic THEN Panic ELSE Unit
    /\ op' = IF who = "a" THEN "set_value_a" ELSE "set_value_b"
    /\ calls' = calls + 1
    /\ inTag' = <<>>
    /\ inValue' = <<>>
    /\ inStr' = <<>>
    /\ out' = <<>>
    /\ typed' = NoTyped
    /\ cli' = NoCli

\* a.to_string() or b.to_string()
PairRender(who) ==
    /\ PairMode
    /\ op \in {"clone", "parse_copy", "set_tag_a", "set_tag_b",
               "set_value_a", "set_value_b"}
    /\ out' = to_string(Deref(who))
    /\ op' = IF who = "a" THEN "to_string_a" ELSE "to_string_b"
    /\ res' = Unit
    /\ inTag' = <<>>
    /\ inValue' = <<>>
    /\ inStr' = <<>>
    /\ UNCHANGED <<pc, tb, calls, tb2>>
    /\ typed' = NoTyped
    /\ cli' = NoCli

\* The caller pushes a byte or a character onto the Vec<u8> or the String
\* that value() or tag() returned.
ModifyCopy ==
    /\ pc = "live" /\ op \in {"tag", "value"}
    /\ out' = Append(out, 65)
    /\ op' = "modify_copy"
    /\ res' = Unit
    /\ UNCHANGED <<pc, tb, calls, inTag, inValue, inStr, tb2>>
    /\ typed' = NoTyped
    /\ cli' = NoCli

\* The value goes out of scope, or the failed call is left behind.
Drop ==
    /\ pc # "idle"
    /\ pc' = "idle"
    /\ tb' = NoValue
    /\ op' = "none"
    /\ calls' = 0
    /\ inTag' = <<>>
    /\ inValue' = <<>>
    /\ inStr' = <<>>
    /\ res' = Unit
    /\ out' = <<>>
    /\ typed' = NoTyped
    /\ cli' = NoCli
    /\ tb2' = {}

\* Offsets a flipped bit can have in the longest canonical string built by New.
FlipOffsets == 0 .. (MaxTagLen + 1 + 4 * ((MaxValueLen + 1) \div 3) + 4)

\* Each guard is repeated in front of the choice of inputs, so that the inputs
\* are enumerated only in the states where the step can be taken.
Next ==
    \/ pc = "idle" /\ \E tag \in NewTags, value \in Values : New(tag, value)
    \/ pc = "idle" /\ \E s \in ParseInputs : Parse(s)
    \/ Fresh /\ \E tag \in SetTags : SetTag(tag)
    \/ Fresh /\ \E value \in SetValues : SetValue(value)
    \/ Fresh /\ \E via \in {"to_string", "Display", "String_from"} : Render(via)
    \/ Fresh /\ \E which \in {"tag", "value"} : Accessor(which)
    \/ Reparse
    \/ op = "new" /\ \E ix \in FlipOffsets, shift \in 0 .. 7 :
                         OneBitCorruption(ix, shift)
    \/ pc = "idle" /\ \E c \in PredicateChars : IsSafeAscii(c)
    \/ pc = "idle" /\ \E tag \in PredicateTags : IsSafeTag(tag)
    \/ pc = "idle" /\ \E x \in BOOLEAN : From(x)
    \/ TryFrom
    \/ pc = "idle" /\ \E s \in FromStrInputs : FromStr(s)
    \/ DisplayFromStr
    \/ pc = "idle" /\ \E decode \in DecodeArgs, tag \in TagArgs, stdin \in Stdins :
                         Main(decode, tag, stdin)
    \/ pc = "idle" /\ \E s \in HumanReadableInputs : Deserialize(TRUE, s, <<>>)
    \/ pc = "idle" /\ \E bytes \in BinaryInputs : Deserialize(FALSE, <<>>, bytes)
    \/ Fresh /\ \E human_readable \in BOOLEAN : SerializeDeserialize(human_readable)
    \/ Clone
    \/ ParseCopy
    \/ PairMode /\ \E who \in {"a", "b"}, tag \in PairTags : PairSetTag(who, tag)
    \/ PairMode /\ \E who \in {"a", "b"}, value \in PairValues :
                       PairSetValue(who, value)
    \/ PairMode /\ \E who \in {"a", "b"} : PairRender(who)
    \/ ModifyCopy
    \/ Drop

Spec == Init /\ [][Next]_vars

---------------------------------------------------------------------------
(* Reference definitions for the properties below, written from RFC 4648   *)
(* and the format's description rather than from the codec's operators.    *)

\* The tag alphabet {A-Z, a-z, 0-9, '-', '_'}.
TagAlphabet == (65 .. 90) \cup (97 .. 122) \cup (48 .. 57) \cup {45, 95}

\* RFC 4648 table 2 ("base64url"), symbol k at position k + 1.
RefAlphabet ==
    << 65, 66, 67, 68, 69, 70, 71, 72, 73, 74, 75, 76, 77,
       78, 79, 80, 81, 82, 83, 84, 85, 86, 87, 88, 89, 90,
       97, 98, 99, 100, 101, 102, 103, 104, 105, 106, 107, 108, 109,
       110, 111, 112, 113, 114, 115, 116, 117, 118, 119, 120, 121, 122,
       48, 49, 50, 51, 52, 53, 54, 55, 56, 57, 45, 95 >>

RefSymbols == {RefAlphabet[k] : k \in 1 .. 64}

RefValue(c) == CHOOSE v \in 0 .. 63 : RefAlphabet[v + 1] = c

\* Bit j (0 is the first) of the bit string of a byte sequence, 0 beyond it.
ByteStreamBit(bytes, j) ==
    IF (j \div 8) + 1 > Len(bytes) THEN 0
    ELSE BitAt(bytes[(j \div 8) + 1], 7 - (j % 8))

\* Unpadded base64url of a byte sequence: its bit string cut into groups of
\* six bits, the last group filled with zeros.
RefEncode(bytes) ==
    [k \in 1 .. ((8 * Len(bytes) + 5) \div 6) |->
        RefAlphabet[ 1 + ByteStreamBit(bytes, 6 * (k - 1)) * 32
                       + ByteStreamBit(bytes, 6 * (k - 1) + 1) * 16
                       + ByteStreamBit(bytes, 6 * (k - 1) + 2) * 8
                       + ByteStreamBit(bytes, 6 * (k - 1) + 3) * 4
                       + ByteStreamBit(bytes, 6 * (k - 1) + 4) * 2
                       + ByteStreamBit(bytes, 6 * (k - 1) + 5) ]]

\* Bit j of the bit string spelled by a text of base64url symbols.
SymbolStreamBit(text, j) == BitAt(RefValue(text[(j \div 6) + 1]), 5 - (j % 6))

\* A text is the unpadded base64url encoding of some byte sequence: only
\* symbols, a possible length, and zeros in the bits no byte takes.
RefDecodable(text) ==
    /\ \A i \in 1 .. Len(text) : text[i] \in RefSymbols
    /\ Len(text) % 4 # 1
    /\ \A j \in (8 * ((6 * Len(text)) \div 8)) .. (6 * Len(text) - 1) :
           SymbolStreamBit(text, j) = 0

\* The byte sequence a decodable text encodes.
RefDecode(text) ==
    [k \in 1 .. ((6 * Len(text)) \div 8) |->
          SymbolStreamBit(text, 8 * (k - 1)) * 128
        + SymbolStreamBit(text, 8 * (k - 1) + 1) * 64
        + SymbolStreamBit(text, 8 * (k - 1) + 2) * 32
        + SymbolStreamBit(text, 8 * (k - 1) + 3) * 16
        + SymbolStreamBit(text, 8 * (k - 1) + 4) * 8
        + SymbolStreamBit(text, 8 * (k - 1) + 5) * 4
        + SymbolStreamBit(text, 8 * (k - 1) + 6) * 2
        + SymbolStreamBit(text, 8 * (k - 1) + 7) ]

\* The parts of a text around its first '~' (HasDelim says there is one).
HasDelim(text) == \E i \in 1 .. Len(text) : text[i] = 126

DelimAt(text) ==
    CHOOSE i \in 1 .. Len(text) :
        text[i] = 126 /\ \A j \in 1 .. (i - 1) : text[j] # 126

TagPart(text) == SubSeq(text, 1, DelimAt(text) - 1)

BodyPart(text) == SubSeq(text, DelimAt(text) + 1, Len(text))

\* A TaggedBase64 value obtained by new or parse exists: it is live, or a call
\* on it has panicked.  (A value that serde's Deserialize has just produced is
\* live as well; it comes from neither of the two.)
ValueExists ==
    \/ pc = "live" /\ op \notin {"deserialize_str", "deserialize_bytes"}
    \/ pc = "panicked" /\ op = "set_tag"

---------------------------------------------------------------------------
(* Properties.                                                             *)

\* C1. Round trip: parsing the canonical string of a value succeeds and gives
\* back a value with the same tag, payload and checksum, which is the value
\* new builds from that tag and payload.
C1_RoundTrip ==
    (pc = "live" /\ op = "reparse") =>
        /\ out = to_string(tb)
        /\ res.kind = "Ok"
        /\ res.val.tag = tb.tag
        /\ res.val.value = tb.value
        /\ res.val.checksum = tb.checksum
        /\ res = new(tb.tag, tb.value)

\* A value with a tag and a two-byte payload has been rendered and parsed back.
C1_Witness ==
    /\ pc = "live" /\ op = "reparse" /\ res.kind = "Ok"
    /\ tb.tag = <<65, 95>> /\ tb.value = <<102, 255>>

\* C2. Invariant I1: after every call the stored checksum is calc_checksum of
\* the current tag and payload.
C2_ChecksumInvariant ==
    ValueExists => tb.checksum = calc_checksum(tb.tag, tb.value)

\* A second setter call has just changed the payload of a value whose tag an
\* earlier call had set.
C2_Witness ==
    /\ pc = "live" /\ op = "set_value" /\ calls >= 2
    /\ tb.tag = <<65>> /\ tb.value = <<255>>

\* C3. Invariant I2: the stored tag has only characters of the tag alphabet,
\* never '~', also after set_tag was called with an unsafe tag.
C3_TagInvariant ==
    ValueExists =>
        /\ \A i \in 1 .. Len(tb.tag) : tb.tag[i] \in TagAlphabet
        /\ \A i \in 1 .. Len(tb.tag) : tb.tag[i] # 126

\* set_tag was called with an unsafe tag on a value with a non-empty tag.
C3_Witness ==
    pc = "panicked" /\ op = "set_tag" /\ tb.tag = <<65, 95>>

\* C4. new returns Err(InvalidTag) and no value exactly for the tags with a
\* character outside the tag alphabet, whatever the payload, and Ok otherwise.
C4_TagRejection ==
    (op = "new") =>
        LET unsafe == \E i \in 1 .. Len(inTag) : inTag[i] \notin TagAlphabet IN
        /\ unsafe => (res.kind = "InvalidTag" /\ pc = "failed" /\ tb = NoValue)
        /\ ~unsafe => (res.kind = "Ok" /\ pc = "live" /\ tb.tag = inTag
                        /\ tb.value = inValue)

\* new was refused for the tag sigma with a non-empty payload.
C4_Witness ==
    /\ op = "new" /\ pc = "failed" /\ res.kind = "InvalidTag"
    /\ inTag = <<931>> /\ inValue = <<0, 102>>

\* C5. A body that fails base64 decoding is reported by parse as one of the
\* three kinds InvalidByte, InvalidLength, InvalidLastSymbol: a character
\* outside the URL-safe alphabet as InvalidByte, an impossible symbol count as
\* InvalidLength, nonzero unused bits in the last symbol as InvalidLastSymbol.
C5_ClassifiedDecodeErrors ==
    (op = "parse" /\ HasDelim(inStr)) =>
        LET tag == TagPart(inStr)
            body == BodyPart(inStr)
            foreign == \E i \in 1 .. Len(body) : body[i] \notin RefSymbols
        IN  ((\A i \in 1 .. Len(tag) : tag[i] \in TagAlphabet) /\ body # <<>>) =>
                /\ foreign => res.kind = "InvalidByte"
                /\ (~foreign /\ Len(body) % 4 = 1) => res.kind = "InvalidLength"
                /\ (~foreign /\ Len(body) % 4 # 1 /\ ~RefDecodable(body)) =>
                       res.kind = "InvalidLastSymbol"

\* C6. No codec operation aborts: no call ends in a panic.
C6_NoAbort == pc # "panicked"

\* The position of the one character in which the corrupted text differs from
\* the canonical string.
FlipPos == CHOOSE i \in 1 .. Len(out) : inStr[i] # out[i]

\* The test flipped a bit of a body character and the text is still UTF-8.
BodyFlipped ==
    /\ op = "one_bit_corruption"
    /\ res.kind # "NotUtf8"
    /\ Len(inStr) = Len(out)
    /\ FlipPos > Len(tb.tag) + 1

\* C7. A single flipped bit in a character of the base64 body is detected:
\* parse returns a base64 error or InvalidChecksum, never Ok.
C7_BodyFlipDetected ==
    BodyFlipped =>
        /\ res.kind \in {"Base64", "InvalidChecksum"}
        /\ res.kind = "InvalidChecksum" => RefDecodable(BodyPart(inStr))
        /\ ~(res.kind = "Ok" /\ res.val.tag = tb.tag /\ res.val.value # tb.value)

\* A flipped bit left a body that decodes (to another payload byte) and the
\* checksum caught it.
C7_Witness ==
    /\ BodyFlipped /\ res.kind = "InvalidChecksum"
    /\ tb.tag = <<65>> /\ tb.value = <<102, 0>> /\ FlipPos = 3

\* The CRC-8 of the ASCII digits "123456789" (the catalogued check value of
\* the CRC-8 with polynomial 0x07 is 0xF4).
Crc8CheckInput == <<49, 50, 51, 52, 53, 54, 55, 56, 57>>

C9_CanonicalRendering ==
    (pc = "live" /\ op \in {"to_string", "Display", "String_from"}) =>
        /\ out = tb.tag \o <<126>> \o RefEncode(tb.value \o <<tb.checksum>>)
        /\ out = to_string(tb)
        /\ out = Display_fmt(tb)
        /\ out = String_from(tb)

\* Display rendered a value whose payload and checksum fill three symbols
\* with a last group of two bytes.
C9_Witness ==
    /\ pc = "live" /\ op = "Display"
    /\ tb.tag = <<84, 65, 71>> /\ tb.value = <<255>>
    /\ Len(out) = 7

\* "AAA~AAA" and "-_~Zm9vYmFy"
LitWrongChecksum == <<65, 65, 65, 126, 65, 65, 65>>

LitNoChecksum == <<45, 95, 126, 90, 109, 57, 118, 89, 109, 70, 121>>

\* C10. When the tag is safe and the non-empty body decodes to bytes d, parse
\* returns InvalidChecksum iff the last byte of d is not the checksum of the
\* tag and the bytes before it, and otherwise Ok with that tag, those bytes
\* as payload and the last byte as checksum.
C10_ChecksumStep ==
    (op \in {"parse", "one_bit_corruption"} /\ res.kind # "NotUtf8"
       /\ HasDelim(inStr)) =>
        LET tag == TagPart(inStr)
            body == BodyPart(inStr)
        IN  /\ ( /\ \A i \in 1 .. Len(tag) : tag[i] \in TagAlphabet
                 /\ body # <<>>
                 /\ RefDecodable(body) ) =>
                   LET d == RefDecode(body)
                       claimed == d[Len(d)]
                       payload == SubSeq(d, 1, Len(d) - 1)
                       wrong == claimed # calc_checksum(tag, payload)
                   IN  /\ (res.kind = "InvalidChecksum") <=> wrong
                       /\ ~wrong =>
                             /\ res.kind = "Ok"
                             /\ res.val = [tag |-> tag, value |-> payload,
                                           checksum |-> claimed]
                             /\ op = "parse" => (pc = "live" /\ tb = res.val)
            /\ inStr = LitWrongChecksum => res.kind = "InvalidChecksum"
            /\ inStr = LitNoChecksum => res.kind # "Ok"

\* parse("AAA~AAA") has returned InvalidChecksum.
C10_Witness ==
    /\ op = "parse" /\ pc = "failed"
    /\ inStr = LitWrongChecksum /\ res.kind = "InvalidChecksum"

\* C11. A string without '~' is answered with MissingDelimiter, whatever
\* else it holds (nothing, characters outside the tag alphabet): the search
\* for the delimiter comes before every other test.
C11_MissingDelimiterFirst ==
    (op = "parse" /\ ~HasDelim(inStr)) =>
        (res.kind = "MissingDelimiter" /\ pc = "failed")

\* parse("!") has returned MissingDelimiter, not InvalidTag.
C11_Witness ==
    op = "parse" /\ inStr = <<33>> /\ res.kind = "MissingDelimiter"

\* The text before the first '~' holds a character outside the tag alphabet.
UnsafePrefix(text) ==
    \E i \in 1 .. Len(TagPart(text)) : TagPart(text)[i] \notin TagAlphabet

\* C12. A string with a '~' whose prefix before the first '~' is not a safe
\* tag is answered with InvalidTag whatever follows the delimiter: an empty
\* body, a body that is not base64, a wrong checksum.
C12_InvalidTagBeforeBody ==
    (op = "parse" /\ HasDelim(inStr) /\ UnsafePrefix(inStr)) =>
        (res.kind = "InvalidTag" /\ pc = "failed")

\* parse("!~") has returned InvalidTag although the body is empty.
C12_Witness ==
    op = "parse" /\ inStr = <<33, 126>> /\ res.kind = "InvalidTag"

\* C13. A string with a safe tag and nothing after its first '~' is answered
\* with MissingChecksum; and no rendered value has an empty body: with an
\* empty payload the body has two symbols.
C13_MissingChecksum ==
    /\ (op = "parse" /\ HasDelim(inStr) /\ ~UnsafePrefix(inStr)
          /\ BodyPart(inStr) = <<>>) =>
           (res.kind = "MissingChecksum" /\ pc = "failed")
    /\ (pc = "live" /\ op \in {"to_string", "Display", "String_from"}) =>
           /\ HasDelim(out) /\ BodyPart(out) # <<>>
           /\ tb.value = <<>> => Len(BodyPart(out)) = 2

\* parse("~") has returned MissingChecksum.
C13_Witness ==
    op = "parse" /\ inStr = <<126>> /\ res.kind = "MissingChecksum"

\* The number of '~' in a text.
DelimCount(text) == Cardinality({i \in 1 .. Len(text) : text[i] = 126})

\* C14. The input is split at its first '~': a string with two or more '~'
\* never parses, and a rendered value holds exactly one '~'.
C14_SingleDelimiter ==
    /\ (op \in {"parse", "one_bit_corruption"} /\ res.kind # "NotUtf8"
          /\ DelimCount(inStr) >= 2) =>
           /\ res.kind \notin {"Ok", "Panic"}
           /\ ~UnsafePrefix(inStr) => res.kind \in {"Base64", "MissingChecksum"}
    /\ (pc = "live"
          /\ op \in {"to_string", "Display", "String_from", "reparse",
                     "one_bit_corruption"}) =>
           (DelimCount(out) = 1 /\ TagPart(out) = tb.tag)

\* parse("~AA~") has split at the first '~' and rejected the second; the
\* same text without its last character parses.
C14_Witness ==
    /\ op = "parse" /\ inStr = <<126, 65, 65, 126>> /\ res.kind = "Base64"
    /\ parse(<<126, 65, 65>>).kind = "Ok"

\* "TAG", "TAG~Ew", "A~wA"
LitTAG == <<84, 65, 71>>

LitTAGEw == <<84, 65, 71, 126, 69, 119>>

LitAwA == <<65, 126, 119, 65>>

\* C15. The value with tag "TAG" and no payload is written "TAG~Ew" and
\* "TAG~Ew" parses to it; "A~wA" parses to the value with tag "A" and no
\* payload; the body of a value without payload is the two symbols that
\* encode the one byte CRC-8(tag).
C15_EmptyPayloadLiterals ==
    /\ (pc = "live" /\ op \in {"to_string", "Display", "String_from"}
          /\ tb.tag = LitTAG /\ tb.value = <<>>) => out = LitTAGEw
    /\ (op = "parse" /\ inStr = LitTAGEw) =>
           /\ res.kind = "Ok"
           /\ res.val = [tag |-> LitTAG, value |-> <<>>, checksum |-> 19]
           /\ res = new(LitTAG, <<>>)
    /\ (op = "parse" /\ inStr = LitAwA) =>
           /\ res.kind = "Ok"
           /\ res.val = [tag |-> <<65>>, value |-> <<>>, checksum |-> 192]
           /\ res = new(<<65>>, <<>>)
    /\ (pc = "live" /\ op \in {"to_string", "Display", "String_from"}
          /\ tb.value = <<>>) =>
           /\ Len(BodyPart(out)) = 2
           /\ BodyPart(out) = RefEncode(<<digest(0, Utf8Bytes(tb.tag))>>)
           /\ RefDecode(BodyPart(out)) = <<tb.checksum>>

\* new("TAG", b"") has been written out as "TAG~Ew".
C15_Witness ==
    /\ pc = "live" /\ op = "to_string" /\ calls = 0
    /\ tb.tag = LitTAG /\ tb.value = <<>> /\ out = LitTAGEw

\* C16. is_safe_base64_ascii is true for the 64 characters A-Z, a-z, 0-9,
\* '-' and '_' and for no other; is_safe_base64_tag is true iff every
\* character of the tag is one of them, hence for the empty tag, and new
\* with the empty tag succeeds for every payload.
C16_TagPredicate ==
    /\ op = "is_safe_base64_ascii" =>
           (res.kind = "true") <=> (inTag[1] \in TagAlphabet)
    /\ op = "is_safe_base64_tag" =>
           /\ (res.kind = "true") <=>
                  (\A i \in 1 .. Len(inTag) : inTag[i] \in TagAlphabet)
           /\ inTag = <<>> => res.kind = "true"
    /\ op \in {"is_safe_base64_ascii", "is_safe_base64_tag"} =>
           res.kind \in {"true", "false"}
    /\ (op = "new" /\ inTag = <<>>) =>
           (res.kind = "Ok" /\ res.val.tag = <<>> /\ res.val.value = inValue)
    /\ Cardinality({c \in PredicateChars : is_safe_base64_ascii(c)}) = 64

\* is_safe_base64_ascii('_') has answered true.
C16_Witness ==
    op = "is_safe_base64_ascii" /\ inTag = <<95>> /\ res.kind = "true"

\* A text is the canonical string of some value: a safe tag, one '~', and
\* a body that encodes a payload followed by its checksum.
RefParses(text) ==
    /\ HasDelim(text)
    /\ ~UnsafePrefix(text)
    /\ BodyPart(text) # <<>>
    /\ RefDecodable(BodyPart(text))
    /\ LET d == RefDecode(BodyPart(text))
           payload == SubSeq(d, 1, Len(d) - 1)
       IN  d[Len(d)] = Xor8(digest(0, Utf8Bytes(TagPart(text)) \o payload),
                            Len(payload) % 256)

\* The payload of such a text.
RefPayload(text) ==
    LET d == RefDecode(BodyPart(text)) IN SubSeq(d, 1, Len(d) - 1)

\* The serialization of a value of T, and the payloads T can be read from.
RefSerialized(x) == IF x THEN <<1>> ELSE <<0>>

RefDeserializes(payload) == payload # <<>> /\ payload[1] \in {0, 1}

\* TryFrom of a value whose tag is not T's.
C17_TryFromMismatch ==
    (op = "try_from" /\ tb.tag # T_tag) =>
        (res.kind = "InvalidTag" /\ typed.to = {})

\* FromStr of a canonical string whose tag is not T's.
C17_FromStrMismatch ==
    (op = "from_str" /\ RefParses(inStr) /\ TagPart(inStr) # T_tag) =>
        (res.kind = "InvalidTag" /\ typed.to = {})

\* C17. Converting a value, or the canonical string of a value, whose tag is
\* safe but is not the tag bound to T fails with InvalidTag, through TryFrom
\* and through T's FromStr alike.
C17_TagMismatchIsInvalidTag == C17_TryFromMismatch /\ C17_FromStrMismatch

\* C18. T's FromStr hands on the error of TaggedBase64::parse unchanged when
\* the string does not parse, and returns InvalidData only for a string that
\* parses, carries T's tag, and has a payload that does not deserialize.
C18_ErrorForwarding ==
    op = "from_str" =>
        /\ ~RefParses(inStr) =>
               /\ res.kind = parse(inStr).kind
               /\ res.message = parse(inStr).message
               /\ res.kind \in {"MissingDelimiter", "InvalidTag",
                                "MissingChecksum", "Base64", "InvalidChecksum"}
        /\ res.kind = "InvalidData" =>
               /\ RefParses(inStr)
               /\ TagPart(inStr) = T_tag
               /\ ~RefDeserializes(RefPayload(inStr))

\* C19. For x of T, TaggedBase64::from(&x) carries T's tag and x's
\* serialization; T::try_from of it gives x back; x.to_string() is its
\* canonical string and T::from_str of that string gives x back.
C19_TypedRoundTrip ==
    /\ (op = "from" /\ typed.from # {}) =>
           /\ pc = "live" /\ res.kind = "Ok"
           /\ \A x \in typed.from :
                  /\ tb.tag = T_tag
                  /\ tb.value = RefSerialized(x)
                  /\ tb.checksum = calc_checksum(T_tag, RefSerialized(x))
    /\ (op = "try_from" /\ typed.from # {}) =>
           (res.kind = "Ok" /\ typed.to = typed.from)
    /\ op = "display_from_str" =>
           /\ out = tb.tag \o <<126>> \o RefEncode(tb.value \o <<tb.checksum>>)
           /\ res.kind = "Ok"
           /\ typed.to = typed.from
           /\ Cardinality(typed.to) = 1

\* The text of T's value true has been read back as true.
C19_Witness ==
    /\ op = "display_from_str" /\ typed.from = {TRUE} /\ typed.to = {TRUE}
    /\ tb.value = <<1>> /\ Len(out) = 5

\* C20. With both --decode and --tag, or with neither, the program calls
\* no codec operation, does not read standard input, prints the usage
\* message and exits with code 2; a run with exactly one of them exits with
\* another code: 0 after a successful decode, 1 after a failed one.
C20_UsageError ==
    (op = "main" /\ cli.ran) =>
        /\ ((cli.decode # {}) <=> (cli.tag # {})) =>
               /\ cli.exit = 2
               /\ cli.stdout = [kind |-> "usage", data |-> <<>>]
               /\ ~cli.read
               /\ cli.codec = "none"
        /\ ((cli.decode # {}) /\ (cli.tag = {})) =>
               \A s \in cli.decode :
                   /\ cli.exit = IF RefParses(s) THEN 0 ELSE 1
                   /\ RefParses(s) =>
                          cli.stdout = [kind |-> "raw", data |-> RefPayload(s)]
        /\ ((cli.decode = {}) /\ (cli.tag # {})) => cli.exit # 2

\* The program was run with --decode TAG~Ew --tag A and exited with 2.
C20_Witness ==
    /\ op = "main" /\ cli.ran
    /\ cli.decode = {LitTAGEw} /\ cli.tag = {<<65>>} /\ cli.exit = 2

\* C21. Every codec failure reached through the program ends in an error
\* message and a non-zero exit, not in a panic: --decode with a string that
\* parse rejects, --tag with a tag that new rejects.  A successful --decode
\* writes the payload bytes and exits 0; a successful --tag prints the
\* canonical string of new(tag, stdin) and exits 0.
C21_CliFailureHandling ==
    (op = "main" /\ cli.ran) =>
        /\ ((cli.decode # {}) /\ (cli.tag = {})) =>
               \A s \in cli.decode :
                   IF RefParses(s)
                   THEN /\ cli.exit = 0
                        /\ cli.stdout = [kind |-> "raw", data |-> RefPayload(s)]
                   ELSE /\ cli.exit \notin {0, 101}
                        /\ cli.stdout.kind = "error"
        /\ ((cli.decode = {}) /\ (cli.tag # {})) =>
               \A t \in cli.tag :
                   IF \A i \in 1 .. Len(t) : t[i] \in TagAlphabet
                   THEN /\ cli.exit = 0
                        /\ cli.read
                        /\ cli.stdout.kind = "line"
                        /\ cli.stdout.data =
                               t \o <<126>> \o
                               RefEncode(Append(cli.stdin,
                                                calc_checksum(t, cli.stdin)))
                   ELSE /\ cli.exit \notin {0, 101}
                        /\ cli.stdout.kind = "error"

\* C22. The canonical string of a value holds only characters of
\* {A-Z, a-z, 0-9, '-', '_'} and exactly one '~': no '=', '+' or '/'; and
\* its body has at least two characters.
C22_OutputAlphabet ==
    (pc = "live" /\ op \in {"to_string", "Display", "String_from"}) =>
        /\ \A i \in 1 .. Len(out) : out[i] \in TagAlphabet \cup {126}
        /\ \A i \in 1 .. Len(out) : out[i] \notin {61, 43, 47}
        /\ Cardinality({i \in 1 .. Len(out) : out[i] = 126}) = 1
        /\ \E d \in 1 .. Len(out) : out[d] = 126 /\ Len(out) - d >= 2

\* A value with an empty tag and an empty payload has been written: "~AA".
C22_Witness ==
    /\ pc = "live" /\ op = "to_string"
    /\ tb.tag = <<>> /\ tb.value = <<>> /\ out = <<126, 65, 65>>

\* C23. A value produced by deserialization, from a string or from bytes,
\* has a tag of tag-alphabet characters only and the checksum of its tag and
\* payload; an input whose checksum byte does not match or whose tag holds an
\* unsafe character is rejected.
C23_DeserializedValuesValid ==
    (op \in {"deserialize_str", "deserialize_bytes"} /\ res.kind = "Ok") =>
        /\ pc = "live" /\ tb = res.val
        /\ \A i \in 1 .. Len(tb.tag) : tb.tag[i] \in TagAlphabet
        /\ tb.checksum = calc_checksum(tb.tag, tb.value)

\* The test flipped a bit of a tag character or of the delimiter of the
\* canonical string of new(t, p) with t and p not empty, and the text is still
\* UTF-8.
TagOrDelimFlipped ==
    /\ op = "one_bit_corruption"
    /\ res.kind # "NotUtf8"
    /\ Len(tb.tag) >= 1 /\ Len(tb.value) >= 1
    /\ Len(inStr) = Len(out)
    /\ FlipPos <= Len(tb.tag) + 1

\* C24. A single flipped bit in a tag character or in the delimiter is
\* detected: parse returns InvalidTag, MissingDelimiter, a base64 error or
\* InvalidChecksum, never Ok; a flipped delimiter leaves no delimiter.
C24_TagFlipDetected ==
    TagOrDelimFlipped =>
        /\ res.kind \in {"InvalidTag", "MissingDelimiter", "Base64",
                         "InvalidChecksum"}
        /\ res.kind # "Ok" /\ res.val = NoValue
        /\ (FlipPos = Len(tb.tag) + 1) => res.kind = "MissingDelimiter"

\* The tag "A" was turned into the safe tag "C" in front of an unchanged body.
C24_Witness ==
    /\ TagOrDelimFlipped
    /\ out[1] = 65 /\ inStr[1] = 67 /\ Len(tb.tag) = 1
    /\ res.kind = "InvalidChecksum"

\* C25. set_tag(t) with a safe tag leaves the payload as it was and makes
\* tag() return t; set_value(p) leaves the tag as it was and makes value()
\* return p; besides that only the checksum changes, to the recomputed one;
\* tag() and value() change nothing.
C25_SetterFrame ==
    [][/\ (op' = "set_tag") =>
              \A tag \in SetTags :
                  (SetTag(tag) /\ \A i \in 1 .. Len(tag) : tag[i] \in TagAlphabet)
                      => /\ pc' = "live"
                         /\ TaggedBase64_tag(tb') = tag
                         /\ TaggedBase64_value(tb') = TaggedBase64_value(tb)
                         /\ tb' = [tag |-> tag, value |-> tb.value,
                                   checksum |-> calc_checksum(tag, tb.value)]
       /\ (op' = "set_value") =>
              \A value \in SetValues :
                  SetValue(value)
                      => /\ pc' = "live"
                         /\ TaggedBase64_value(tb') = value
                         /\ TaggedBase64_tag(tb') = TaggedBase64_tag(tb)
                         /\ tb' = [tag |-> tb.tag, value |-> value,
                                   checksum |-> calc_checksum(tb.tag, value)]
       /\ (op' \in {"tag", "value"}) =>
              /\ tb' = tb /\ pc' = pc
              /\ out' = IF op' = "tag" THEN tb.tag ELSE tb.value
      ]_vars

\* set_tag has replaced the tag of a value that keeps its two-byte payload.
C25_Witness ==
    /\ pc = "live" /\ op = "set_tag" /\ calls = 1
    /\ tb.tag = <<65, 65>> /\ tb.value = <<102, 255>>

\* C26. After any sequence of setter calls on a value made by new or parse,
\* the value is the one new builds from the tag and the payload written last
\* (or the initial ones), and so is its canonical string, however many calls
\* came before and in whatever order.
C26_MutationIsReconstruction ==
    /\ (pc = "live" /\ op \in {"new", "parse", "set_tag", "set_value"}) =>
           /\ new(inTag, inValue).kind = "Ok"
           /\ tb = new(inTag, inValue).val
    /\ (pc = "live" /\ op \in {"to_string", "Display", "String_from"}) =>
           /\ tb = new(inTag, inValue).val
           /\ out = to_string(new(inTag, inValue).val)

\* A payload was written and then a tag, and the value has been rendered: it
\* reads as new("AA", [255]) does.
C26_Witness ==
    /\ pc = "live" /\ op = "to_string" /\ calls = 2
    /\ inTag = <<65, 65>> /\ inValue = <<255>>
    /\ out = <<65, 65, 126>> \o RefEncode(<<255, calc_checksum(<<65, 65>>, <<255>>)>>)

\* C27. parse answers Ok or one Tb64Error for every string and never
\* panics: a non-empty body that decodes gives at least one byte, so the
\* split at len - 1 is in range, and a body of one character is refused as a
\* base64 error before the split.
C27_ParseTotal ==
    (op = "parse") =>
        /\ res.kind \in {"Ok", "MissingDelimiter", "InvalidTag",
                         "MissingChecksum", "Base64", "InvalidChecksum"}
        /\ res.kind # "Panic" /\ pc \in {"live", "failed"}
        /\ (HasDelim(inStr) /\ BodyPart(inStr) # <<>>) =>
               /\ decode_raw(BodyPart(inStr)).kind = "Ok"
                      => Len(decode_raw(BodyPart(inStr)).bytes) >= 1
               /\ (Len(BodyPart(inStr)) = 1 /\ ~UnsafePrefix(inStr))
                      => res.kind = "Base64"

\* parse was handed "A~A": a safe tag and a body of one symbol.
C27_Witness ==
    /\ op = "parse" /\ inStr = <<65, 126, 65>>
    /\ res.kind = "Base64" /\ pc = "failed"

\* C28. A string that parses to a value is the canonical string of that
\* value, so no two strings parse to the same value: a body with '=' padding
\* or with nonzero bits after the last byte is refused.
C28_UniqueText ==
    (op = "parse") =>
        /\ res.kind = "Ok" =>
               /\ to_string(res.val) = inStr
               /\ inStr = res.val.tag \o <<126>>
                       \o RefEncode(Append(res.val.value, res.val.checksum))
        /\ (\E i \in 1 .. Len(inStr) : inStr[i] = 61) => res.kind # "Ok"
        /\ (HasDelim(inStr) /\ ~UnsafePrefix(inStr) /\ BodyPart(inStr) # <<>>
              /\ ~RefDecodable(BodyPart(inStr))) => res.kind = "Base64"

\* parse has accepted "~AA", and "~AE", which differs from it in bits that no
\* byte takes, is an input of the model that is refused.
C28_Witness ==
    /\ op = "parse" /\ inStr = <<126, 65, 65>> /\ res.kind = "Ok"
    /\ <<126, 65, 69>> \in ParseInputs
    /\ parse(<<126, 65, 69>>).kind = "Base64"
    /\ <<126, 65, 65, 61>> \in ParseInputs
    /\ parse(<<126, 65, 65, 61>>).kind = "Base64"

\* Two values with the same tag whose payloads have the same CRC-8 after the
\* tag: tb and the value v held beside it.
SameCrc(v) ==
    /\ pc = "live"
    /\ tb.tag = v.tag
    /\ digest(digest(0, Utf8Bytes(tb.tag)), tb.value)
           = digest(digest(0, Utf8Bytes(v.tag)), v.value)

\* C29. Two payloads of different lengths with the same CRC-8 after the same
\* tag have different checksums.
C29_LengthMixIn ==
    \A v \in tb2 :
        (SameCrc(v) /\ Len(tb.value) # Len(v.value)) =>
            calc_checksum(tb.tag, tb.value) # calc_checksum(v.tag, v.value)

\* C29, amended. Two payloads whose lengths differ modulo 256, with the same
\* CRC-8 after the same tag, have different checksums; payloads whose lengths
\* differ by a multiple of 256 and whose CRC-8 is the same have the same one.
C29_LengthMixInMod256 ==
    \A v \in tb2 :
        SameCrc(v) =>
            ((Len(tb.value) % 256 # Len(v.value) % 256)
                 <=> (calc_checksum(tb.tag, tb.value)
                          # calc_checksum(v.tag, v.value)))

\* The payload [0] beside the payload [0, 0], both under the empty tag: the
\* CRC-8 of both is 0, the checksums are 1 and 2.
C29_Witness ==
    /\ pc = "live" /\ tb.tag = <<>> /\ tb.value = <<0>> /\ tb.checksum = 1
    /\ tb2 = {[tag |-> <<>>, value |-> <<0, 0>>, checksum |-> 2]}
    /\ \A v \in tb2 : SameCrc(v)

\* C30. Of two values, one a clone of the other or parsed from its canonical
\* string, a setter called on one changes nothing of the other, neither its
\* fields nor its canonical string; cloning, parsing and to_string leave
\* their argument as it was; what tag() and value() return is a copy, and
\* changing it changes nothing of the value.
C30_NoSharedState ==
    [][/\ (op' \in {"set_tag_a", "set_value_a"}) =>
              /\ tb2' = tb2
              /\ \A v \in tb2 : \E w \in tb2' : to_string(w) = to_string(v)
       /\ (op' \in {"set_tag_b", "set_value_b"}) =>
              /\ tb' = tb
              /\ to_string(tb') = to_string(tb)
       /\ (op' \in {"clone", "parse_copy"}) =>
              /\ tb' = tb
              /\ tb2' = {tb}
       /\ (op' \in {"to_string_a", "to_string_b"}) =>
              /\ tb' = tb /\ tb2' = tb2
              /\ out' = to_string(IF op' = "to_string_a" THEN tb
                                  ELSE CHOOSE v \in tb2 : TRUE)
       /\ (op' = "modify_copy") =>
              /\ out' # out
              /\ tb' = tb /\ tb2' = tb2
      ]_vars

\* b, a clone of a, was given another tag and another payload; a is as it
\* was made.
C30_Witness ==
    /\ pc = "live" /\ op = "set_value_b" /\ calls = 2
    /\ tb = [tag |-> <<65>>, value |-> <<255>>,
             checksum |-> calc_checksum(<<65>>, <<255>>)]
    /\ \E v \in tb2 : v.tag = <<66>> /\ v.value = <<0, 0>>

=============================================================================
